---- MODULE Spec2Model ----
\* Cache-aware fetch orchestration of the weather client:
\*   CacheManager   (src/src/utils/cache_manager.py)
\*   WeatherService (src/src/services/weather_service.py)
\* The cache directory is a map from file names to file contents, the clock is
\* the value datetime.now() returns, and every coroutine of _fetch_data is a
\* caller that is either idle or suspended in "await client.get(...)".
EXTENDS Integers, Sequences, FiniteSets, TLC

VARIABLES
    files,           \* cache_dir: file name -> content of the file (NoFile when absent)
    now,             \* the reading of datetime.now()
    expiry_seconds,  \* CacheManager.expiry_seconds
    pc,              \* caller -> "idle" | "awaiting" (suspended in client.get)
    req,             \* caller -> cache_key of the _fetch_data call in progress
    last,            \* the operation executed last, what it read and what it returned
    trail,           \* history: the latest get and set calls in a row on one key
    shield,          \* history: a successful upstream fetch and whether its record is intact
    api_key,         \* settings.openweather_api_key
    service,         \* the WeatherService: "unbuilt" | "ready" | "failed" (__init__ raised)
    fault,           \* the I/O failures met by the operation executed last
    asked,           \* history: caller -> the logical request it made of the service last
    reply,           \* what the public method or the route called last gave its caller
    proc             \* caller -> the locals of its CacheManager call in progress

vars == <<files, now, expiry_seconds, pc, req, last, trail, shield,
          api_key, service, fault, asked, reply, proc>>

----------------------------------------------------------------------------
\* Bounds of the model.

MaxTime == 2      \* the clock runs over 0..MaxTime
MaxTTL == 1       \* time-to-live values 0..MaxTTL

Callers == {"c1", "c2"}           \* concurrent _fetch_data coroutines
Payloads == {"p1", "p2"}          \* parsed JSON bodies of the upstream
None == -1                        \* Python's None where an integer is expected
NoData == "-"                     \* no 'data' member / no payload

----------------------------------------------------------------------------
\* Cache keys and file names (strings are sequences of characters).

Cities == { <<"L">>, <<"a", "/", "b">>, <<"a", "_", "b">> }

\* cache_key = f"weather_{city}"
WeatherKey(city) == <<"w", "e", "a", "t", "h", "e", "r", "_">> \o city

CacheKeys == { WeatherKey(c) : c \in Cities }

\* key.replace("/", "_").replace(":", "_").replace("?", "_").replace("&", "_")
SafeChar(ch) == IF ch \in {"/", ":", "?", "&"} THEN "_" ELSE ch

\* _get_cache_file_path: cache_dir / f"{safe_key}.json"
GetCacheFilePath(key) ==
    [i \in 1..Len(key) |-> SafeChar(key[i])] \o <<".", "j", "s", "o", "n">>

FileNames == { GetCacheFilePath(k) : k \in CacheKeys }

----------------------------------------------------------------------------
\* File contents.  A file holds text; what json.load makes of it is one of:
\*   "garbage"  not JSON (json.JSONDecodeError)
\*   "nonobj"   JSON that is not an object (a list, a number, a string, null)
\*   "obj"      a JSON object, with or without the members cached_at and data

NoStamp   == [t |-> "absent", v |-> None]   \* no 'cached_at' member
BadStamp  == [t |-> "badstr", v |-> None]   \* a string that is no ISO timestamp
NumStamp  == [t |-> "nonstr", v |-> None]   \* a number, null, a list, ...
AwareStamp(t) == [t |-> "aware", v |-> t]   \* an ISO timestamp with a UTC offset

\* datetime.isoformat() of a naive datetime
IsoFormat(t) == [t |-> "iso", v |-> t]

NoFile  == [kind |-> "nofile",  cached_at |-> NoStamp, data |-> NoData]
Garbage == [kind |-> "garbage", cached_at |-> NoStamp, data |-> NoData]
NonObj  == [kind |-> "nonobj",  cached_at |-> NoStamp, data |-> NoData]
\* A file open(cache_file, 'w') has just created or truncated: no byte yet.
EmptyFile == [kind |-> "empty", cached_at |-> NoStamp, data |-> NoData]
Obj(stamp, data) == [kind |-> "obj", cached_at |-> stamp, data |-> data]

\* json.dump({'data': data, 'cached_at': datetime.now().isoformat()}, f)
JsonDump(data, t) == Obj(IsoFormat(t), data)

\* Records edited by hand before the program starts.
HandCorrupted ==
    { Garbage, NonObj,
      Obj(NoStamp, "p1"), Obj(BadStamp, "p1"), Obj(NumStamp, "p1"),
      Obj(AwareStamp(0), "p1"), Obj(IsoFormat(0), NoData) }

----------------------------------------------------------------------------
\* Values returned to a caller.
\*   "none"     None
\*   "dict"     {'data': ..., 'cached': ..., 'cached_at': ...}
\*   "raise"    an exception of class err leaves the call
\*   "pending"  the coroutine is suspended, nothing returned yet
\*   "count"    an integer n

Ret(kind, data, cached, cached_at, err, n) ==
    [kind |-> kind, data |-> data, cached |-> cached, cached_at |-> cached_at,
     err |-> err, n |-> n]

RetNone          == Ret("none", NoData, FALSE, None, "-", 0)
RetPending       == Ret("pending", NoData, FALSE, None, "-", 0)
RetRaise(exc)    == Ret("raise", NoData, FALSE, None, exc, 0)
RetCount(n)      == Ret("count", NoData, FALSE, None, "-", n)
RetDict(d, c, t) == Ret("dict", d, c, t, "-", 0)

----------------------------------------------------------------------------
\* CacheManager.__init__: self.expiry_seconds = expiry_seconds or settings.cache_expiry_seconds
InitExpiry(arg, configured) == IF arg # None /\ arg # 0 THEN arg ELSE configured

\* json.load(f), cache_data['cached_at'], datetime.fromisoformat(...):
\* the exception raised ("" when none) and the datetime parsed.
ReadStamp(rec) ==
    IF rec.kind \in {"garbage", "empty"} THEN [exc |-> "JSONDecodeError", aware |-> FALSE, v |-> None]
    ELSE IF rec.kind = "nonobj" THEN [exc |-> "TypeError", aware |-> FALSE, v |-> None]
    ELSE IF rec.cached_at.t = "absent" THEN [exc |-> "KeyError", aware |-> FALSE, v |-> None]
    ELSE IF rec.cached_at.t = "nonstr" THEN [exc |-> "TypeError", aware |-> FALSE, v |-> None]
    ELSE IF rec.cached_at.t = "badstr" THEN [exc |-> "ValueError", aware |-> FALSE, v |-> None]
    ELSE [exc |-> "", aware |-> (rec.cached_at.t = "aware"), v |-> rec.cached_at.v]

\* Faulty variants of the expiry test: one second too lenient, and too strict at
\* the boundary.
Expired_lenient(t, cached_at, ttl) == t - cached_at > ttl + 1
Expired_strict(t, cached_at, ttl) == t - cached_at >= ttl

\* datetime.now() - cached_at > timedelta(seconds=self.expiry_seconds)
Expired(t, cached_at, ttl) == t - cached_at > ttl

\* Faulty variant of the try block of get: cached_at is the time of the read.
TryGet_readtime(rec, t, ttl) ==
    LET s == ReadStamp(rec) IN
    IF s.exc # "" THEN [exc |-> s.exc, unlink |-> FALSE, ret |-> RetNone]
    ELSE IF s.aware THEN [exc |-> "TypeError", unlink |-> FALSE, ret |-> RetNone]
    ELSE IF t - s.v > ttl THEN [exc |-> "", unlink |-> TRUE, ret |-> RetNone]
    ELSE IF rec.data = NoData THEN [exc |-> "KeyError", unlink |-> FALSE, ret |-> RetNone]
    ELSE [exc |-> "", unlink |-> FALSE, ret |-> RetDict(rec.data, TRUE, t)]

\* The try block of get: [exc, unlink, ret].
TryGet(rec, t, ttl) ==
    LET s == ReadStamp(rec) IN
    IF s.exc # "" THEN [exc |-> s.exc, unlink |-> FALSE, ret |-> RetNone]
    ELSE IF s.aware THEN [exc |-> "TypeError", unlink |-> FALSE, ret |-> RetNone]
    ELSE IF Expired(t, s.v, ttl) THEN [exc |-> "", unlink |-> TRUE, ret |-> RetNone]
    ELSE IF rec.data = NoData THEN [exc |-> "KeyError", unlink |-> FALSE, ret |-> RetNone]
    ELSE [exc |-> "", unlink |-> FALSE, ret |-> RetDict(rec.data, TRUE, s.v)]

\* except (json.JSONDecodeError, KeyError, ValueError)
CaughtByGet == {"JSONDecodeError", "KeyError", "ValueError"}

Unlink(fs, f) == [fs EXCEPT ![f] = NoFile]

\* Faulty variant of get: a hit rewrites the record with the time of the read.
Get_touch(fs, key, t, ttl) ==
    LET f == GetCacheFilePath(key)
        r == TryGet(fs[f], t, ttl)
    IN  IF fs[f] = NoFile THEN [ret |-> RetNone, files |-> fs, branch |-> "absent"]
        ELSE IF r.exc = "" THEN
            IF r.unlink THEN [ret |-> r.ret, files |-> Unlink(fs, f), branch |-> "expired"]
            ELSE [ret |-> r.ret, files |-> [fs EXCEPT ![f] = JsonDump(r.ret.data, t)],
                  branch |-> "hit"]
        ELSE IF r.exc \in CaughtByGet THEN
            [ret |-> RetNone, files |-> Unlink(fs, f), branch |-> "invalid"]
        ELSE [ret |-> RetRaise(r.exc), files |-> fs, branch |-> "raise"]

\* CacheManager.get: the value returned (or the exception raised), the directory
\* afterwards, and the branch taken:
\*   "absent"   not cache_file.exists()
\*   "hit"      the dict is returned
\*   "expired"  the expiry check unlinks the file
\*   "invalid"  the except clause unlinks the file
\*   "raise"    an exception the except clause does not name
Get(fs, key, t, ttl) ==
    LET f == GetCacheFilePath(key)
        r == TryGet(fs[f], t, ttl)
    IN  IF fs[f] = NoFile THEN [ret |-> RetNone, files |-> fs, branch |-> "absent"]
        ELSE IF r.exc = "" THEN
            IF r.unlink THEN [ret |-> r.ret, files |-> Unlink(fs, f), branch |-> "expired"]
            ELSE [ret |-> r.ret, files |-> fs, branch |-> "hit"]
        ELSE IF r.exc \in CaughtByGet THEN
            [ret |-> RetNone, files |-> Unlink(fs, f), branch |-> "invalid"]
        ELSE [ret |-> RetRaise(r.exc), files |-> fs, branch |-> "raise"]

\* Faulty variant of set: the file is opened in exclusive-creation mode, so an
\* existing record is kept.
Set_keepfirst(fs, key, data, t) ==
    IF fs[GetCacheFilePath(key)] = NoFile
    THEN [fs EXCEPT ![GetCacheFilePath(key)] = JsonDump(data, t)]
    ELSE fs

\* CacheManager.set: the directory afterwards.
Set(fs, key, data, t) == [fs EXCEPT ![GetCacheFilePath(key)] = JsonDump(data, t)]

\* CacheManager.clear: every *.json file is unlinked and counted.
Clear(fs) ==
    [ret |-> RetCount(Cardinality({f \in DOMAIN fs : fs[f] # NoFile})),
     files |-> [f \in DOMAIN fs |-> NoFile]]

\* clear_expired, one file: is it unlinked (and counted)?
SweepRemoves(rec, t, ttl) ==
    LET s == ReadStamp(rec) IN
    IF s.exc # "" THEN TRUE                  \* except Exception: unlink, count
    ELSE IF s.aware THEN TRUE                \* TypeError, caught as well
    ELSE Expired(t, s.v, ttl)

\* CacheManager.clear_expired
ClearExpired(fs, t, ttl) ==
    LET gone == {f \in DOMAIN fs : fs[f] # NoFile /\ SweepRemoves(fs[f], t, ttl)}
    IN  [ret |-> RetCount(Cardinality(gone)),
         files |-> [f \in DOMAIN fs |-> IF f \in gone THEN NoFile ELSE fs[f]]]

----------------------------------------------------------------------------
\* The upstream: what "await client.get(url, timeout=self.timeout)" ends in.

Unparseable == "unparseable"    \* a body response.json() raises on
NoUpstream == [exc |-> "-", status |-> None, body |-> NoData]

Transport(exc) == [exc |-> exc, status |-> None, body |-> NoData]
Response(status, body) == [exc |-> "none", status |-> status, body |-> body]

\* The timeout can strike while the body of an answered request is still being read.
TimeoutReadingBody == [exc |-> "httpx.TimeoutException", status |-> 404, body |-> NoData]

Outcomes ==
    { Transport(e) : e \in {"httpx.TimeoutException", "httpx.NetworkError", "httpx.HTTPError"} }
    \cup { TimeoutReadingBody }
    \cup { Response(200, b) : b \in Payloads \cup {Unparseable} }
    \cup { Response(s, "p1") : s \in {401, 404, 500} }

\* Faulty variant of the classification: the status is inspected before the
\* transport failure.
Classify_statusfirst(o) ==
    IF o.status = 404 THEN "CityNotFoundException"
    ELSE IF o.status = 401 THEN "APIKeyException"
    ELSE IF o.exc = "httpx.TimeoutException" THEN "TimeoutException"
    ELSE IF o.exc = "httpx.NetworkError" THEN "NetworkException"
    ELSE IF o.exc = "httpx.HTTPError" THEN "NetworkException"
    ELSE IF o.status # 200 THEN "InvalidResponseException"
    ELSE IF o.body = Unparseable THEN "InvalidResponseException"
    ELSE ""

\* The exception _fetch_data raises for an upstream outcome ("" when it raises none).
Classify(o) ==
    IF o.exc = "httpx.TimeoutException" THEN "TimeoutException"
    ELSE IF o.exc = "httpx.NetworkError" THEN "NetworkException"
    ELSE IF o.exc = "httpx.HTTPError" THEN "NetworkException"
    ELSE IF o.status = 404 THEN "CityNotFoundException"
    ELSE IF o.status = 401 THEN "APIKeyException"
    ELSE IF o.status # 200 THEN "InvalidResponseException"
    ELSE IF o.body = Unparseable THEN "InvalidResponseException"
    ELSE ""

\* Faulty variants of the write after the await: every answered request is
\* cached, whatever its status; and no request is cached.
CompleteFiles_early(fs, key, o, t) ==
    IF o.exc = "none" /\ o.body \in Payloads THEN Set(fs, key, o.body, t) ELSE fs
CompleteFiles_never(fs, key, o, t) == fs

\* Faulty variant of the write after the await: a record another call has
\* written meanwhile is kept (first writer wins).
CompleteFiles_keepfirst(fs, key, o, t) ==
    IF Classify(o) = "" /\ fs[GetCacheFilePath(key)] = NoFile
    THEN Set(fs, key, o.body, t)
    ELSE fs

\* _fetch_data after the await: the directory it leaves and what it returns or raises.
CompleteFiles(fs, key, o, t) ==
    IF Classify(o) = "" THEN Set(fs, key, o.body, t) ELSE fs

CompleteRet(o) ==
    IF Classify(o) = "" THEN RetDict(o.body, FALSE, None) ELSE RetRaise(Classify(o))

----------------------------------------------------------------------------
\* The operation executed last: its name, its arguments (key, val), the upstream
\* outcome it consumed, the branch its cache lookup took and the value it
\* returned.  The passage of time counts as an operation, so that "now" is the
\* time at which the operation in "last" ran.

NoKey == << >>
NoBranch == "-"

Op(op, key, val, upstream, branch, ret) ==
    [op |-> op, key |-> key, val |-> val, upstream |-> upstream,
     branch |-> branch, ret |-> ret]

\* No upstream fetch is being followed.
NoShield == [key |-> NoKey, data |-> NoData, at |-> None, intact |-> FALSE]

\* The operation met no I/O failure: every write went through and no unlink raised.
NoFault == [write |-> "ok", stuck |-> {}]

\* Nothing has been given to a caller of a public method or of a route yet:
\* the HTTP status (None outside the routes) and the value returned or raised.
NoReply == [status |-> None, body |-> RetNone]

\* The caller is in no CacheManager call.
NoCall == [op |-> "-", key |-> NoKey, val |-> NoData, at |-> None, cut |-> "-",
           todo |-> {}, count |-> 0, removed |-> 0]

\* The caller has made no request through the public methods of the service.
NoRequest == [method |-> "-", city |-> << >>, city_id |-> None, cnt |-> None]

Init ==
    /\ \E f \in FileNames, r \in {NoFile} \cup HandCorrupted :
           files = [g \in FileNames |-> IF g = f THEN r ELSE NoFile]
    /\ now = 0
    /\ \E arg \in {None} \cup (0..MaxTTL), configured \in 0..MaxTTL :
           expiry_seconds = InitExpiry(arg, configured)
    /\ pc = [c \in Callers |-> "idle"]
    /\ req = [c \in Callers |-> NoKey]
    /\ last = Op("init", NoKey, NoData, NoUpstream, NoBranch, RetNone)
    /\ trail = << >>
    /\ shield = NoShield
    /\ api_key = "key"
    /\ service = "ready"
    /\ fault = NoFault
    /\ asked = [c \in Callers |-> NoRequest]
    /\ reply = NoReply
    /\ proc = [c \in Callers |-> NoCall]

\* Time passes.
Tick ==
    /\ now < MaxTime
    /\ now' = now + 1
    /\ last' = Op("tick", NoKey, NoData, NoUpstream, NoBranch, RetNone)
    /\ UNCHANGED <<files, expiry_seconds, pc, req, trail, shield>>
    /\ UNCHANGED <<api_key, service, fault, asked, reply, proc>>

\* cache.get(key)
DoGet(key) ==
    LET g == Get(files, key, now, expiry_seconds) IN
    /\ files' = g.files
    /\ last' = Op("get", key, NoData, NoUpstream, g.branch, g.ret)
    /\ UNCHANGED <<now, expiry_seconds, pc, req>>

\* Faulty variant of set: the entry carries the deadline of the writing store,
\* the time of the write plus its time-to-live.
DoSet_countdown(key, data) ==
    /\ files' = Set(files, key, data, now + expiry_seconds)
    /\ last' = Op("set", key, data, NoUpstream, NoBranch, RetNone)
    /\ UNCHANGED <<now, expiry_seconds, pc, req>>

\* cache.set(key, data)
DoSet(key, data) ==
    /\ files' = Set(files, key, data, now)
    /\ last' = Op("set", key, data, NoUpstream, NoBranch, RetNone)
    /\ UNCHANGED <<now, expiry_seconds, pc, req>>

\* cache.clear()
DoClear ==
    LET r == Clear(files) IN
    /\ files' = r.files
    /\ last' = Op("clear", NoKey, NoData, NoUpstream, NoBranch, r.ret)
    /\ UNCHANGED <<now, expiry_seconds, pc, req>>

\* cache.clear_expired()
DoClearExpired ==
    LET r == ClearExpired(files, now, expiry_seconds) IN
    /\ files' = r.files
    /\ last' = Op("clear_expired", NoKey, NoData, NoUpstream, NoBranch, r.ret)
    /\ UNCHANGED <<now, expiry_seconds, pc, req>>

\* Faulty variant of the start of _fetch_data: the cached dict is not returned,
\* the request goes upstream whatever the lookup found.
FetchLookup_nocache(c, key) ==
    LET g == Get(files, key, now, expiry_seconds) IN
    /\ pc[c] = "idle"
    /\ files' = g.files
    /\ pc' = [pc EXCEPT ![c] = "awaiting"]
    /\ req' = [req EXCEPT ![c] = key]
    /\ last' = Op("fetch", key, NoData, NoUpstream, g.branch, RetPending)
    /\ UNCHANGED <<now, expiry_seconds>>

\* _fetch_data up to its suspension: the cache lookup, then either the return of
\* the cached dict (or the exception of get, which no handler surrounds) or the
\* request sent upstream.
FetchLookup(c, key) ==
    LET g == Get(files, key, now, expiry_seconds) IN
    /\ pc[c] = "idle"
    /\ files' = g.files
    /\ IF g.ret.kind = "none"
       THEN /\ pc' = [pc EXCEPT ![c] = "awaiting"]
            /\ req' = [req EXCEPT ![c] = key]
            /\ last' = Op("fetch", key, NoData, NoUpstream, g.branch, RetPending)
       ELSE /\ UNCHANGED <<pc, req>>
            /\ last' = Op("fetch", key, NoData, NoUpstream, g.branch, g.ret)
    /\ UNCHANGED <<now, expiry_seconds>>

\* Faulty variant of the end of _fetch_data: after a timeout the request is sent
\* again and the call stays suspended.
FetchComplete_retry(c, o) ==
    /\ pc[c] = "awaiting"
    /\ IF o.exc = "httpx.TimeoutException"
       THEN /\ UNCHANGED <<pc, req, files>>
            /\ last' = Op("fetch_done", req[c], NoData, o, NoBranch, RetPending)
       ELSE /\ pc' = [pc EXCEPT ![c] = "idle"]
            /\ req' = [req EXCEPT ![c] = NoKey]
            /\ files' = CompleteFiles(files, req[c], o, now)
            /\ last' = Op("fetch_done", req[c], NoData, o, NoBranch, CompleteRet(o))
    /\ UNCHANGED <<now, expiry_seconds>>

\* _fetch_data from the upstream's answer to its return.
FetchComplete(c, o) ==
    /\ pc[c] = "awaiting"
    /\ pc' = [pc EXCEPT ![c] = "idle"]
    /\ req' = [req EXCEPT ![c] = NoKey]
    /\ files' = CompleteFiles(files, req[c], o, now)
    /\ last' = Op("fetch_done", req[c], NoData, o, NoBranch, CompleteRet(o))
    /\ UNCHANGED <<now, expiry_seconds>>

\* The service is built with a credential, the file system works and the logical
\* requests are not followed, except in the specifications that say otherwise.
Settled == UNCHANGED <<api_key, service, fault, asked, reply, proc>>

\* The history variables are kept only by the specifications that follow a history.
Quiet == UNCHANGED <<trail, shield>> /\ Settled

Next ==
    \/ Tick
    \/ (\E k \in CacheKeys : DoGet(k)) /\ Quiet
    \/ (\E k \in CacheKeys, d \in Payloads : DoSet(k, d)) /\ Quiet
    \/ DoClear /\ Quiet
    \/ DoClearExpired /\ Quiet
    \/ (\E c \in Callers, k \in CacheKeys : FetchLookup(c, k)) /\ Quiet
    \/ (\E c \in Callers, o \in Outcomes : FetchComplete(c, o)) /\ Quiet

Spec == Init /\ [][Next]_vars

----------------------------------------------------------------------------
\* The CacheManager used on its own, by one client after the other: get, set,
\* clear and clear_expired, with the calls made in a row on one key remembered.

\* A call as the trail keeps it: with the time at which it ran.
Call(o, t) == [op |-> o.op, key |-> o.key, val |-> o.val, ret |-> o.ret, at |-> t]

\* The trail with one more call: it restarts on another key, is cut to the
\* latest three calls, and ends with a sweep.
Extend(tr, call) ==
    IF call.op \notin {"get", "set"} THEN << >>
    ELSE IF tr = << >> \/ tr[Len(tr)].key # call.key THEN << call >>
    ELSE IF Len(tr) < 3 THEN Append(tr, call)
    ELSE Append(Tail(tr), call)

Track == trail' = Extend(trail, Call(last', now)) /\ UNCHANGED shield /\ Settled

NextStore ==
    \/ Tick
    \/ (\E k \in CacheKeys : DoGet(k)) /\ Track
    \/ (\E k \in CacheKeys, d \in Payloads : DoSet(k, d)) /\ Track
    \/ DoClear /\ Track
    \/ DoClearExpired /\ Track

SpecStore == Init /\ [][NextStore]_vars

----------------------------------------------------------------------------
\* The WeatherService used by concurrent requests: fetches, clear_cache and
\* clear_expired_cache, with one successful upstream fetch followed.

\* The followed fetch after a step.  A successful upstream fetch is taken up when
\* none is followed or the followed one is past the time-to-live; another write
\* to the file of the followed key marks its record as overwritten; clear ends
\* the following.
Follow(sh, call, t, ttl) ==
    IF call.op = "clear" THEN NoShield
    ELSE IF call.op = "fetch_done" /\ call.ret.kind = "dict" THEN
        IF sh = NoShield \/ t - sh.at > ttl
        THEN [key |-> call.key, data |-> call.ret.data, at |-> t, intact |-> TRUE]
        ELSE IF GetCacheFilePath(call.key) = GetCacheFilePath(sh.key)
        THEN [sh EXCEPT !.intact = FALSE]
        ELSE sh
    ELSE sh

Shielded == shield' = Follow(shield, last', now, expiry_seconds) /\ UNCHANGED trail /\ Settled

NextService ==
    \/ Tick
    \/ DoClear /\ Shielded
    \/ DoClearExpired /\ Shielded
    \/ (\E c \in Callers, k \in CacheKeys : FetchLookup(c, k)) /\ Shielded
    \/ (\E c \in Callers, o \in Outcomes : FetchComplete(c, o)) /\ Shielded

\* The service starts on an empty cache directory.
InitService == Init /\ \A f \in FileNames : files[f] = NoFile

SpecService == InitService /\ [][NextService]_vars

----------------------------------------------------------------------------
\* The cache on a file system that fails: open(cache_file, 'w') or json.dump
\* raises in set, cache_file.unlink() raises in clear.

\* How the with-block of set ends:
\*   "ok"    the record is written
\*   "open"  open raises, the file is as it was
\*   "dump"  the file was opened (and truncated) and the write raises midway
WriteFaults == {"ok", "open", "dump"}

\* The with-block of set: the directory afterwards and the exception raised.
WriteFile(fs, f, rec, w) ==
    IF w = "ok" THEN [files |-> [fs EXCEPT ![f] = rec], exc |-> ""]
    ELSE IF w = "open" THEN [files |-> fs, exc |-> "OSError"]
    ELSE [files |-> [fs EXCEPT ![f] = Garbage], exc |-> "OSError"]

\* except Exception as e: print(...)
CaughtBySet == {"OSError", "TypeError", "ValueError"}

\* Faulty variant of set on a failing file system: no except clause.
SetIO_nocatch(fs, key, data, t, w) ==
    WriteFile(fs, GetCacheFilePath(key), JsonDump(data, t), w)

\* CacheManager.set on a failing file system: the directory afterwards and the
\* exception that leaves set ("" when none does).
SetIO(fs, key, data, t, w) ==
    LET r == WriteFile(fs, GetCacheFilePath(key), JsonDump(data, t), w)
    IN  [files |-> r.files, exc |-> IF r.exc \in CaughtBySet THEN "" ELSE r.exc]

\* Faulty variant of clear on a failing file system: the first unlink that
\* raises ends the sweep (here the failing file is the first one listed).
ClearIO_abort(fs, stuck) ==
    IF \E f \in stuck : fs[f] # NoFile
    THEN [ret |-> RetRaise("OSError"), files |-> fs]
    ELSE Clear(fs)

\* CacheManager.clear when unlink raises for the files in stuck: try: unlink,
\* count += 1; except Exception: pass.
ClearIO(fs, stuck) ==
    LET gone == {f \in DOMAIN fs : fs[f] # NoFile /\ f \notin stuck}
    IN  [ret |-> RetCount(Cardinality(gone)),
         files |-> [f \in DOMAIN fs |-> IF f \in gone THEN NoFile ELSE fs[f]]]

\* _fetch_data after the await on a failing file system.  An exception leaving
\* cache.set is none of the httpx classes the handlers name.
CompleteIO(fs, key, o, t, w) ==
    LET s == SetIO(fs, key, o.body, t, w) IN
    IF Classify(o) # "" THEN [files |-> fs, ret |-> CompleteRet(o)]
    ELSE IF s.exc # "" THEN [files |-> s.files, ret |-> RetRaise(s.exc)]
    ELSE [files |-> s.files, ret |-> CompleteRet(o)]

Fault(w, stuck) == [write |-> w, stuck |-> stuck]

\* cache.clear(), unlink raising for the files in stuck
DoClearIO(stuck) ==
    LET r == ClearIO(files, stuck) IN
    /\ \A f \in stuck : files[f] # NoFile
    /\ files' = r.files
    /\ fault' = Fault("ok", stuck)
    /\ last' = Op("clear", NoKey, NoData, NoUpstream, NoBranch, r.ret)
    /\ UNCHANGED <<now, expiry_seconds, pc, req>>

\* _fetch_data from the upstream's answer to its return, the write (when one is
\* made) ending as w
FetchCompleteIO(c, o, w) ==
    LET r == CompleteIO(files, req[c], o, now, w) IN
    /\ pc[c] = "awaiting"
    /\ Classify(o) # "" => w = "ok"
    /\ pc' = [pc EXCEPT ![c] = "idle"]
    /\ req' = [req EXCEPT ![c] = NoKey]
    /\ files' = r.files
    /\ fault' = Fault(w, {})
    /\ last' = Op("fetch_done", req[c], NoData, o, NoBranch, r.ret)
    /\ UNCHANGED <<now, expiry_seconds>>

\* The rest stays as it is.
Rest == UNCHANGED <<trail, shield, api_key, service, asked, reply, proc>>

NextIO ==
    \/ Tick
    \/ (\E stuck \in SUBSET FileNames : DoClearIO(stuck)) /\ Rest
    \/ (\E c \in Callers, k \in CacheKeys : FetchLookup(c, k)) /\ fault' = NoFault /\ Rest
    \/ (\E c \in Callers, o \in Outcomes, w \in WriteFaults : FetchCompleteIO(c, o, w)) /\ Rest

SpecIO == InitService /\ [][NextIO]_vars

----------------------------------------------------------------------------
\* The public methods of the WeatherService: each derives its cache key from its
\* arguments and calls _fetch_data.

\* str(n) of an integer n >= 0, as an f-string formats it.
Digit(d) ==
    CASE d = 0 -> "0" [] d = 1 -> "1" [] d = 2 -> "2" [] d = 3 -> "3" [] d = 4 -> "4"
      [] d = 5 -> "5" [] d = 6 -> "6" [] d = 7 -> "7" [] d = 8 -> "8" [] d = 9 -> "9"

RECURSIVE Str(_)
Str(n) == IF n < 10 THEN << Digit(n) >> ELSE Str(n \div 10) \o << Digit(n % 10) >>

\* cache_key = f"weather_id_{city_id}"
WeatherIdKey(city_id) == <<"w", "e", "a", "t", "h", "e", "r", "_", "i", "d", "_">> \o Str(city_id)

\* cache_key = f"forecast_{city}_{cnt}"
ForecastKey(city, cnt) ==
    <<"f", "o", "r", "e", "c", "a", "s", "t", "_">> \o city \o <<"_">> \o Str(cnt)

\* cache_key = f"forecast_id_{city_id}_{cnt}"
ForecastIdKey(city_id, cnt) ==
    <<"f", "o", "r", "e", "c", "a", "s", "t", "_", "i", "d", "_">>
        \o Str(city_id) \o <<"_">> \o Str(cnt)

\* The arguments the methods are called with.
AskedCities == { <<"i", "d", "_", "1", "2">>, <<"a", "/", "b">>, <<"a", "_", "b">> }
AskedIds == {12}
AskedCnts == {40}

Request(method, city, city_id, cnt) ==
    [method |-> method, city |-> city, city_id |-> city_id, cnt |-> cnt]

Requests ==
    { Request("get_current_weather", c, None, None) : c \in AskedCities }
    \cup { Request("get_weather_by_id", << >>, i, None) : i \in AskedIds }
    \cup { Request("get_forecast", c, None, n) : c \in AskedCities, n \in AskedCnts }
    \cup { Request("get_forecast_by_id", << >>, i, n) : i \in AskedIds, n \in AskedCnts }

\* The cache key a method passes to _fetch_data.
RequestKey(r) ==
    CASE r.method = "get_current_weather" -> WeatherKey(r.city)
      [] r.method = "get_weather_by_id" -> WeatherIdKey(r.city_id)
      [] r.method = "get_forecast" -> ForecastKey(r.city, r.cnt)
      [] r.method = "get_forecast_by_id" -> ForecastIdKey(r.city_id, r.cnt)

\* The storage identifier of a logical request.
RequestFile(r) == GetCacheFilePath(RequestKey(r))

RequestFiles == { RequestFile(r) : r \in Requests }

\* A public method called by c, up to the suspension of its _fetch_data.
Ask(c, r) ==
    /\ FetchLookup(c, RequestKey(r))
    /\ asked' = [asked EXCEPT ![c] = r]
    /\ UNCHANGED <<trail, shield, api_key, service, fault, reply, proc>>

GetCurrentWeather(c, city) == Ask(c, Request("get_current_weather", city, None, None))
GetWeatherById(c, city_id) == Ask(c, Request("get_weather_by_id", << >>, city_id, None))
GetForecast(c, city, cnt) == Ask(c, Request("get_forecast", city, None, cnt))
GetForecastById(c, city_id, cnt) == Ask(c, Request("get_forecast_by_id", << >>, city_id, cnt))

\* The upstream answers with a body or with 404.
Answers == { Response(200, "p1"), Response(404, "p1") }

NextRequests ==
    \/ \E c \in Callers, city \in AskedCities : GetCurrentWeather(c, city)
    \/ \E c \in Callers, i \in AskedIds : GetWeatherById(c, i)
    \/ \E c \in Callers, city \in AskedCities, n \in AskedCnts : GetForecast(c, city, n)
    \/ \E c \in Callers, i \in AskedIds, n \in AskedCnts : GetForecastById(c, i, n)
    \/ (\E c \in Callers, o \in Answers : FetchComplete(c, o)) /\ Quiet

\* The service starts on an empty cache directory.
InitRequests ==
    /\ files = [f \in RequestFiles |-> NoFile]
    /\ now = 0
    /\ expiry_seconds \in 0..MaxTTL
    /\ pc = [c \in Callers |-> "idle"]
    /\ req = [c \in Callers |-> NoKey]
    /\ last = Op("init", NoKey, NoData, NoUpstream, NoBranch, RetNone)
    /\ trail = << >>
    /\ shield = NoShield
    /\ api_key = "key"
    /\ service = "ready"
    /\ fault = NoFault
    /\ asked = [c \in Callers |-> NoRequest]
    /\ reply = NoReply
    /\ proc = [c \in Callers |-> NoCall]

SpecRequests == InitRequests /\ [][NextRequests]_vars

----------------------------------------------------------------------------
\* The construction of the WeatherService, with or without a credential.

\* The values of OPENWEATHER_API_KEY: not set (the default "") or set.
ApiKeys == {"", "key"}

\* Faulty variant of __init__: the credential is not inspected.
Built_unchecked(key) == [service |-> "ready", ret |-> RetNone]

\* WeatherService.__init__: if not self.api_key: raise APIKeyException(...)
Built(key) ==
    IF key = ""
    THEN [service |-> "failed", ret |-> RetRaise("APIKeyException")]
    ELSE [service |-> "ready", ret |-> RetNone]

\* service = WeatherService()
Construct ==
    /\ service # "ready"
    /\ service' = Built(api_key).service
    /\ last' = Op("construct", NoKey, NoData, NoUpstream, NoBranch, Built(api_key).ret)
    /\ UNCHANGED <<files, now, expiry_seconds, pc, req, api_key>>

\* A method is called on the object the constructor returned.
OnService(c, key) == service = "ready" /\ FetchLookup(c, key)

\* The rest stays as it is.
Held == UNCHANGED <<trail, shield, fault, asked, reply, proc>>

NextBoot ==
    \/ Tick
    \/ Construct /\ Held
    \/ (\E c \in Callers, k \in CacheKeys : OnService(c, k)) /\ Held /\ UNCHANGED <<api_key, service>>
    \/ (\E c \in Callers, o \in Outcomes : FetchComplete(c, o)) /\ Held /\ UNCHANGED <<api_key, service>>

\* No service is built yet; the cache directory is empty.
InitBoot ==
    /\ files = [f \in FileNames |-> NoFile]
    /\ now = 0
    /\ expiry_seconds \in 0..MaxTTL
    /\ pc = [c \in Callers |-> "idle"]
    /\ req = [c \in Callers |-> NoKey]
    /\ last = Op("init", NoKey, NoData, NoUpstream, NoBranch, RetNone)
    /\ trail = << >>
    /\ shield = NoShield
    /\ api_key \in ApiKeys
    /\ service = "unbuilt"
    /\ fault = NoFault
    /\ asked = [c \in Callers |-> NoRequest]
    /\ reply = NoReply
    /\ proc = [c \in Callers |-> NoCall]

SpecBoot == InitBoot /\ [][NextBoot]_vars

----------------------------------------------------------------------------
\* The public methods in full: _fetch_data, then the assembly of the response
\* model (WeatherResponse / ForecastResponse) from the payload.

\* A parsed body that is not of the shape the response models expect: a JSON
\* object with other members.
Misshaped == "px"

ShapedPayloads == {"p1", Misshaped}

\* WeatherItem(**result['data']) / ForecastResponse(**forecast_data): the
\* exception pydantic raises ("" when none).
Validate(data) == IF data = Misshaped THEN "ValidationError" ELSE ""

\* Faulty variant of the assembly: a payload served from the cache is handed
\* out as it is.
Assemble_trustcache(ret) ==
    IF ret.kind = "dict" /\ ~ret.cached /\ Validate(ret.data) # ""
    THEN RetRaise(Validate(ret.data))
    ELSE ret

\* What a public method gives its caller, from what _fetch_data returned or
\* raised: no handler surrounds the construction of the response model.
Assemble(ret) ==
    IF ret.kind = "dict" /\ Validate(ret.data) # ""
    THEN RetRaise(Validate(ret.data))
    ELSE ret

\* The reply after a step of a public method: none yet while _fetch_data is suspended.
Replied(ret, old) == IF ret = RetPending THEN old ELSE [status |-> None, body |-> Assemble(ret)]

\* The requests made in full, one for each public method.
FullRequests ==
    { Request("get_current_weather", <<"a", "_", "b">>, None, None),
      Request("get_weather_by_id", << >>, 12, None),
      Request("get_forecast", <<"a", "_", "b">>, None, 40),
      Request("get_forecast_by_id", << >>, 12, 40) }

FullFiles == { RequestFile(r) : r \in FullRequests }

\* A public method called by c, up to the suspension of its _fetch_data or, on a
\* cache hit, to its return.
Invoke(c, r) ==
    /\ FetchLookup(c, RequestKey(r))
    /\ asked' = [asked EXCEPT ![c] = r]
    /\ reply' = Replied(last'.ret, reply)
    /\ UNCHANGED <<trail, shield, api_key, service, fault, proc>>

\* Faulty variant of the rest of a public method: the payload is validated
\* before it is stored.
Return_validated(c, o) ==
    /\ pc[c] = "awaiting"
    /\ pc' = [pc EXCEPT ![c] = "idle"]
    /\ req' = [req EXCEPT ![c] = NoKey]
    /\ files' = IF Classify(o) = "" /\ Validate(o.body) = ""
                THEN Set(files, req[c], o.body, now) ELSE files
    /\ last' = Op("fetch_done", req[c], NoData, o, NoBranch, CompleteRet(o))
    /\ reply' = Replied(last'.ret, reply)
    /\ UNCHANGED <<now, expiry_seconds, trail, shield, api_key, service, fault, asked, proc>>

\* The rest of a public method: _fetch_data from the upstream's answer to its
\* return (the cache write included), then the assembly.
Return(c, o) ==
    /\ FetchComplete(c, o)
    /\ reply' = Replied(last'.ret, reply)
    /\ UNCHANGED <<trail, shield, api_key, service, fault, asked, proc>>

\* The upstream answers with a body of one or the other shape, or with 404.
ShapedAnswers == { Response(200, b) : b \in ShapedPayloads } \cup { Response(404, "p1") }

\* cache.clear(), with nothing given to a caller of a public method
ClearAll == DoClear /\ UNCHANGED <<trail, shield, api_key, service, fault, asked, reply, proc>>

NextFull ==
    \/ Tick
    \/ \E r \in FullRequests : Invoke("c1", r)
    \/ \E o \in ShapedAnswers : Return("c1", o)
    \/ ClearAll

InitFull ==
    /\ files = [f \in FullFiles |-> NoFile]
    /\ now = 0
    /\ expiry_seconds \in 0..MaxTTL
    /\ pc = [c \in Callers |-> "idle"]
    /\ req = [c \in Callers |-> NoKey]
    /\ last = Op("init", NoKey, NoData, NoUpstream, NoBranch, RetNone)
    /\ trail = << >>
    /\ shield = NoShield
    /\ api_key = "key"
    /\ service = "ready"
    /\ fault = NoFault
    /\ asked = [c \in Callers |-> NoRequest]
    /\ reply = NoReply
    /\ proc = [c \in Callers |-> NoCall]

SpecFull == InitFull /\ [][NextFull]_vars

----------------------------------------------------------------------------
\* The cache administration routes DELETE /weather/cache/clear and
\* DELETE /weather/cache/clear-expired.  The records of the directory come from
\* earlier runs and from other processes writing to it.

HTTP_200_OK == 200
HTTP_500_INTERNAL_SERVER_ERROR == 500

\* Faulty variant of the route: the store is cleared without a service being
\* constructed.
ClearCache_direct(fs, key) ==
    [files |-> Clear(fs).files, reply |-> [status |-> HTTP_200_OK, body |-> Clear(fs).ret]]

\* clear_cache: service = WeatherService(); count = service.clear_cache();
\* except Exception: raise HTTPException(500)
ClearCache(fs, key) ==
    IF Built(key).service # "ready"
    THEN [files |-> fs, reply |-> [status |-> HTTP_500_INTERNAL_SERVER_ERROR, body |-> Built(key).ret]]
    ELSE [files |-> Clear(fs).files, reply |-> [status |-> HTTP_200_OK, body |-> Clear(fs).ret]]

\* clear_expired_cache: service = WeatherService(); count = service.clear_expired_cache()
ClearExpiredCache(fs, key, t, ttl) ==
    IF Built(key).service # "ready"
    THEN [files |-> fs, reply |-> [status |-> HTTP_500_INTERNAL_SERVER_ERROR, body |-> Built(key).ret]]
    ELSE [files |-> ClearExpired(fs, t, ttl).files,
          reply |-> [status |-> HTTP_200_OK, body |-> ClearExpired(fs, t, ttl).ret]]

\* What a route leaves untouched.
Routed == UNCHANGED <<now, expiry_seconds, pc, req, trail, shield, api_key, fault, asked, proc>>

DoClearCache ==
    LET r == ClearCache(files, api_key) IN
    /\ files' = r.files
    /\ reply' = r.reply
    /\ service' = Built(api_key).service
    /\ last' = Op("clear_cache", NoKey, NoData, NoUpstream, NoBranch, r.reply.body)
    /\ Routed

DoClearExpiredCache ==
    LET r == ClearExpiredCache(files, api_key, now, expiry_seconds) IN
    /\ files' = r.files
    /\ reply' = r.reply
    /\ service' = Built(api_key).service
    /\ last' = Op("clear_expired_cache", NoKey, NoData, NoUpstream, NoBranch, r.reply.body)
    /\ Routed

NextRoutes ==
    \/ Tick
    \/ (\E k \in CacheKeys, d \in Payloads : DoSet(k, d)) /\ Quiet
    \/ DoClearCache
    \/ DoClearExpiredCache

\* The directory holds at most one record left by an earlier run; the
\* credential is set or not.
InitRoutes ==
    /\ \E f \in FileNames, r \in {NoFile} \cup HandCorrupted :
           files = [g \in FileNames |-> IF g = f THEN r ELSE NoFile]
    /\ now = 0
    /\ expiry_seconds \in 0..MaxTTL
    /\ pc = [c \in Callers |-> "idle"]
    /\ req = [c \in Callers |-> NoKey]
    /\ last = Op("init", NoKey, NoData, NoUpstream, NoBranch, RetNone)
    /\ trail = << >>
    /\ shield = NoShield
    /\ api_key \in ApiKeys
    /\ service = "unbuilt"
    /\ fault = NoFault
    /\ asked = [c \in Callers |-> NoRequest]
    /\ reply = NoReply
    /\ proc = [c \in Callers |-> NoCall]

SpecRoutes == InitRoutes /\ [][NextRoutes]_vars

----------------------------------------------------------------------------
\* Stores constructed one after the other over the same directory, each with
\* its own time-to-live: CacheManager(expiry_seconds=arg) under a configuration
\* whose cache_expiry_seconds is "configured".  The trail holds the latest set
\* whose record is still as that set left it, with the time-to-live of the
\* store that wrote it.

Written(o, t, ttl) == [op |-> o.op, key |-> o.key, val |-> o.val, ret |-> o.ret, at |-> t, ttl |-> ttl]

\* CacheManager(expiry_seconds=arg)
Reopen(arg, configured) ==
    /\ expiry_seconds' = InitExpiry(arg, configured)
    /\ last' = Op("reopen", NoKey, arg, NoUpstream, NoBranch, RetNone)
    /\ UNCHANGED <<files, now, pc, req>>

\* The trail after a step: a set starts it, and it ends when the record of that
\* set changes.
Remember ==
    /\ trail' = IF last'.op = "set" THEN << Written(last', now, expiry_seconds) >>
                ELSE IF trail # << >>
                        /\ files'[GetCacheFilePath(trail[1].key)] # files[GetCacheFilePath(trail[1].key)]
                     THEN << >>
                ELSE trail
    /\ UNCHANGED shield
    /\ Settled

NextReconf ==
    \/ Tick
    \/ (\E k \in CacheKeys : DoGet(k)) /\ Remember
    \/ (\E k \in CacheKeys, d \in Payloads : DoSet(k, d)) /\ Remember
    \/ DoClear /\ Remember
    \/ (\E arg \in {None} \cup (0..MaxTTL), configured \in 0..MaxTTL : Reopen(arg, configured)) /\ Remember

SpecReconf == Init /\ [][NextReconf]_vars

----------------------------------------------------------------------------
\* The CacheManager calls statement by statement, as two processes over one
\* directory interleave them on one key.  pc[c] is the statement the call of c
\* has reached and proc[c] holds its locals: the payload and the cached_at of a
\* set, the listing a clear or clear_expired still has to go through (todo) and
\* its count.  Two fields are kept for the properties: "cut" names the operation
\* that unlinked the file a set holds open (what the set then writes reaches no
\* directory entry), and "removed" counts the records the call itself removed.

RaceKey == WeatherKey(<<"L">>)
RaceFile == GetCacheFilePath(RaceKey)

\* The length of what json.dump writes grows with the payload ("p2" is the
\* longer one); cached_at has a fixed length.
PayloadSize(d) == IF d = "p2" THEN 2 ELSE 1

\* The length of a file; an undecodable one is as long as the longest entry.
Size(rec) ==
    CASE rec.kind = "obj" -> PayloadSize(rec.data)
      [] rec.kind = "garbage" -> PayloadSize("p2")
      [] OTHER -> 0

\* The write of an entry from offset 0 into a file opened with 'w' before the
\* present content was written: bytes beyond the entry stay where they are.
WriteOver(rec, entry) == IF Size(rec) > Size(entry) THEN Garbage ELSE entry

\* The locals after the file f was unlinked by the operation op: the sets that
\* hold f open keep writing to a file no directory entry names.
Detach(pr, f, op) ==
    [c \in DOMAIN pr |->
        IF pr[c].op = "set" /\ GetCacheFilePath(pr[c].key) = f /\ pr[c].cut = "-"
        THEN [pr[c] EXCEPT !.cut = op]
        ELSE pr[c]]

\* A statement inside a call: nothing is returned yet.
Step(name) == Op(name, RaceKey, NoData, NoUpstream, NoBranch, RetPending)

\* The call of c goes on at the statement pos, with the locals pr.
Goto(c, pr, pos) ==
    /\ pc' = [pc EXCEPT ![c] = pos]
    /\ proc' = pr
    /\ last' = Step(pos)

\* The call of c returns or raises: o is the finished operation.
Finish(c, pr, o) ==
    /\ pc' = [pc EXCEPT ![c] = "idle"]
    /\ proc' = [pr EXCEPT ![c] = NoCall]
    /\ last' = o

\* The file a clear or clear_expired is at.
Current(c) == CHOOSE f \in proc[c].todo : TRUE

\* The listing of glob("*.json").
Glob(fs) == {f \in DOMAIN fs : fs[f] # NoFile}

\* get: if not cache_file.exists(): return None
GetExists(c) ==
    /\ pc[c] = "idle"
    /\ files' = files
    /\ IF files[RaceFile] = NoFile
       THEN /\ last' = Op("get", RaceKey, NoData, NoUpstream, "absent", RetNone)
            /\ UNCHANGED <<pc, proc>>
       ELSE Goto(c, [proc EXCEPT ![c] = [NoCall EXCEPT !.op = "get", !.key = RaceKey]], "get_open")

\* get: open, json.load, the expiry test and the return of the entry.  The open
\* of a file that is gone raises FileNotFoundError, which the except clause of
\* get does not name.
GetOpen(c) ==
    LET rec == files[RaceFile]
        r == TryGet(rec, now, expiry_seconds)
    IN  /\ pc[c] = "get_open"
        /\ files' = files
        /\ IF rec = NoFile
           THEN Finish(c, proc, Op("get", RaceKey, NoData, NoUpstream, "raise", RetRaise("FileNotFoundError")))
           ELSE IF r.exc = "" /\ r.unlink THEN Goto(c, proc, "get_unlink_expired")
           ELSE IF r.exc = "" THEN Finish(c, proc, Op("get", RaceKey, NoData, NoUpstream, "hit", r.ret))
           ELSE IF r.exc \in CaughtByGet THEN Goto(c, proc, "get_unlink_invalid")
           ELSE Finish(c, proc, Op("get", RaceKey, NoData, NoUpstream, "raise", RetRaise(r.exc)))

\* get, expired entry: cache_file.unlink(); return None
GetUnlinkExpired(c) ==
    /\ pc[c] = "get_unlink_expired"
    /\ IF files[RaceFile] = NoFile
       THEN /\ files' = files
            /\ Finish(c, proc, Op("get", RaceKey, NoData, NoUpstream, "raise", RetRaise("FileNotFoundError")))
       ELSE /\ files' = Unlink(files, RaceFile)
            /\ Finish(c, Detach(proc, RaceFile, "get"), Op("get", RaceKey, NoData, NoUpstream, "expired", RetNone))

\* get, invalid file: cache_file.unlink(missing_ok=True); return None
GetUnlinkInvalid(c) ==
    /\ pc[c] = "get_unlink_invalid"
    /\ files' = Unlink(files, RaceFile)
    /\ Finish(c, IF files[RaceFile] = NoFile THEN proc ELSE Detach(proc, RaceFile, "get"),
              Op("get", RaceKey, NoData, NoUpstream, "invalid", RetNone))

\* set: cached_at = datetime.now().isoformat(); open(cache_file, 'w') creates
\* the file or truncates it.
SetOpen(c, data) ==
    /\ pc[c] = "idle"
    /\ files' = [files EXCEPT ![RaceFile] = EmptyFile]
    /\ Goto(c, [proc EXCEPT ![c] = [NoCall EXCEPT !.op = "set", !.key = RaceKey,
                                                  !.val = data, !.at = now]], "set_write")

\* set: json.dump reaches the file when it is closed.
SetWrite(c) ==
    /\ pc[c] = "set_write"
    /\ files' = IF proc[c].cut = "-"
                THEN [files EXCEPT ![RaceFile] = WriteOver(@, JsonDump(proc[c].val, proc[c].at))]
                ELSE files
    /\ Finish(c, proc, Op("set", RaceKey, proc[c].val, NoUpstream, NoBranch, RetNone))

\* clear: count = 0; for cache_file in self.cache_dir.glob("*.json")
ClearGlob(c) ==
    /\ pc[c] = "idle"
    /\ files' = files
    /\ IF Glob(files) = {}
       THEN /\ last' = Op("clear", NoKey, NoData, NoUpstream, NoBranch, RetCount(0))
            /\ UNCHANGED <<pc, proc>>
       ELSE Goto(c, [proc EXCEPT ![c] = [NoCall EXCEPT !.op = "clear", !.todo = Glob(files)]],
                 "clear_unlink")

\* The loop goes to the next file of the listing, or the call returns its count.
Advance(c, pr, f, n, had, op, pos) ==
    IF proc[c].todo \ {f} = {}
    THEN Finish(c, pr, Op(op, NoKey, NoData, NoUpstream, NoBranch, RetCount(n)))
    ELSE Goto(c, [pr EXCEPT ![c].todo = @ \ {f}, ![c].count = n,
                            ![c].removed = @ + (IF had THEN 1 ELSE 0)], pos)

\* clear: try: cache_file.unlink(); count += 1; except Exception: pass
ClearUnlink(c) ==
    LET f == Current(c)
        had == files[f] # NoFile
    IN  /\ pc[c] = "clear_unlink"
        /\ files' = Unlink(files, f)
        /\ Advance(c, IF had THEN Detach(proc, f, "clear") ELSE proc, f,
                   proc[c].count + (IF had THEN 1 ELSE 0), had, "clear", "clear_unlink")

\* clear_expired: count = 0; for cache_file in self.cache_dir.glob("*.json")
SweepGlob(c) ==
    /\ pc[c] = "idle"
    /\ files' = files
    /\ IF Glob(files) = {}
       THEN /\ last' = Op("clear_expired", NoKey, NoData, NoUpstream, NoBranch, RetCount(0))
            /\ UNCHANGED <<pc, proc>>
       ELSE Goto(c, [proc EXCEPT ![c] = [NoCall EXCEPT !.op = "clear_expired", !.todo = Glob(files)]],
                 "sweep_open")

\* clear_expired: open, json.load and the expiry test of one file; a fresh
\* entry is left, anything else goes on to an unlink.
SweepOpen(c) ==
    LET f == Current(c)
        rec == files[f]
    IN  /\ pc[c] = "sweep_open"
        /\ files' = files
        /\ IF rec = NoFile \/ SweepRemoves(rec, now, expiry_seconds)
           THEN Goto(c, proc, "sweep_unlink")
           ELSE Advance(c, proc, f, proc[c].count, FALSE, "clear_expired", "sweep_open")

\* clear_expired: cache_file.unlink(); count += 1 for an expired entry, and
\* except Exception: cache_file.unlink(missing_ok=True); count += 1 for a file
\* that could not be opened or read, or whose unlink has just failed.
SweepUnlink(c) ==
    LET f == Current(c)
        had == files[f] # NoFile
    IN  /\ pc[c] = "sweep_unlink"
        /\ files' = Unlink(files, f)
        /\ Advance(c, IF had THEN Detach(proc, f, "clear_expired") ELSE proc, f,
                   proc[c].count + 1, had, "clear_expired", "sweep_open")

\* What the calls of the store leave untouched.
Racing == UNCHANGED <<now, expiry_seconds, req, trail, shield, api_key, service, fault, asked, reply>>

NextRace ==
    \/ Tick
    \/ (\E c \in Callers : GetExists(c)) /\ Racing
    \/ (\E c \in Callers : GetOpen(c)) /\ Racing
    \/ (\E c \in Callers : GetUnlinkExpired(c)) /\ Racing
    \/ (\E c \in Callers : GetUnlinkInvalid(c)) /\ Racing
    \/ (\E c \in Callers, d \in Payloads : SetOpen(c, d)) /\ Racing
    \/ (\E c \in Callers : SetWrite(c)) /\ Racing
    \/ (\E c \in Callers : ClearGlob(c)) /\ Racing
    \/ (\E c \in Callers : ClearUnlink(c)) /\ Racing
    \/ (\E c \in Callers : SweepGlob(c)) /\ Racing
    \/ (\E c \in Callers : SweepOpen(c)) /\ Racing
    \/ (\E c \in Callers : SweepUnlink(c)) /\ Racing

\* The processes start on an empty cache directory.
InitRace == Init /\ \A f \in FileNames : files[f] = NoFile

SpecRace == InitRace /\ [][NextRace]_vars

----------------------------------------------------------------------------
\* Vocabulary of the properties.

\* The record stored for a cache key.
RecOf(key) == files[GetCacheFilePath(key)]

\* A fully valid entry: an object with a naive ISO cached_at and a data member.
IsEntry(rec) == rec.kind = "obj" /\ rec.cached_at.t = "iso" /\ rec.data \in Payloads

StoredAt(rec) == rec.cached_at.v

\* The step is an operation named in ops.
Ran(ops) == last'.op \in ops

\* The error kind of the taxonomy an exception class stands for.
ErrorKind(exc) ==
    CASE exc = "TimeoutException" -> "Timeout"
      [] exc = "NetworkException" -> "NetworkFailure"
      [] exc = "InvalidResponseException" -> "InvalidResponse"
      [] exc = "APIKeyException" -> "Unauthorized"
      [] exc = "CityNotFoundException" -> "NotFound"
      [] OTHER -> "unclassified"

----------------------------------------------------------------------------
\* C1: no get and no _fetch_data returns a hit (cached = true) for an entry whose
\* age, the reader's now minus the stored cached_at, exceeds the time-to-live.
C1_NoStaleHit ==
    [][ (Ran({"get", "fetch"}) /\ last'.ret.kind = "dict" /\ last'.ret.cached)
        => /\ IsEntry(RecOf(last'.key))
           /\ now - StoredAt(RecOf(last'.key)) <= expiry_seconds ]_vars

\* An expired entry was looked up by _fetch_data, which went on to the upstream.
C1_Witness ==
    last.op = "fetch" /\ last.branch = "expired" /\ last.ret = RetPending

\* C2: a _fetch_data whose lookup finds a valid fresh entry returns its payload
\* with cached = true and the cached_at the entry was stored with, and sends no
\* request upstream.
C2_HitServedFromCache ==
    [][ (/\ Ran({"fetch"})
         /\ IsEntry(RecOf(last'.key))
         /\ now - StoredAt(RecOf(last'.key)) <= expiry_seconds)
        => /\ last'.ret = RetDict(RecOf(last'.key).data, TRUE, StoredAt(RecOf(last'.key)))
           /\ pc' = pc
           /\ req' = req ]_vars

\* _fetch_data returned a cached entry at a time later than the entry's storage time.
C2_Witness ==
    /\ last.op = "fetch" /\ last.ret.kind = "dict" /\ last.ret.cached
    /\ last.ret.cached_at < now
    /\ \A c \in Callers : pc[c] = "idle"

\* C3: a _fetch_data call that ends in a failure creates and overwrites no cache
\* record: its lookup can only remove the record it evicts, and the step in which
\* it fails leaves the directory as it is.
C3_FailureWritesNothing ==
    [][ /\ (Ran({"fetch_done"}) /\ last'.ret.kind = "raise") => files' = files
        /\ Ran({"fetch"})
              => \A f \in FileNames : files'[f] = files[f] \/ files'[f] = NoFile ]_vars

\* A call failed while the record of its key, written meanwhile by another call, stayed.
C3_Witness ==
    /\ last.op = "fetch_done" /\ last.ret.kind = "raise"
    /\ last.upstream = Response(500, "p1")
    /\ IsEntry(RecOf(last.key))

C5_Classification ==
    last.op = "fetch_done" =>
        LET o == last.upstream
            kind == IF last.ret.kind = "raise" THEN ErrorKind(last.ret.err) ELSE "none"
        IN  /\ o.exc = "httpx.TimeoutException" => kind = "Timeout"
            /\ o.exc \in {"httpx.NetworkError", "httpx.HTTPError"} => kind = "NetworkFailure"
            /\ (o.exc = "none" /\ o.status = 404) => kind = "NotFound"
            /\ (o.exc = "none" /\ o.status = 401) => kind = "Unauthorized"
            /\ (o.exc = "none" /\ o.status \notin {200, 401, 404}) => kind = "InvalidResponse"
            /\ (o.exc = "none" /\ o.status = 200 /\ o.body = Unparseable)
                  => kind = "InvalidResponse"
            /\ (o.exc = "none" /\ o.status = 200 /\ o.body \in Payloads) => kind = "none"

\* The timeout struck after the status line of a 404 had arrived: Timeout, not NotFound.
C5_Witness ==
    /\ last.op = "fetch_done" /\ last.upstream = TimeoutReadingBody
    /\ last.ret = RetRaise("TimeoutException")

\* C7: for every stored record that is not a fully valid entry, get returns None
\* without raising, and the record is gone afterwards.
C7_CorruptIsAbsent ==
    [][ (Ran({"get"}) /\ RecOf(last'.key) # NoFile /\ ~IsEntry(RecOf(last'.key)))
        => /\ last'.ret = RetNone
           /\ files'[GetCacheFilePath(last'.key)] = NoFile ]_vars

\* C8: get on an entry stored at T with time-to-live S, at time t: the entry is
\* returned when t - T <= S (also at t - T = S), and when t - T > S None is
\* returned and the record is removed.
C8_TtlBoundary ==
    [][ (Ran({"get"}) /\ IsEntry(RecOf(last'.key)))
        => LET rec == RecOf(last'.key)
               age == now - StoredAt(rec)
           IN  /\ age <= expiry_seconds
                    => /\ last'.ret = RetDict(rec.data, TRUE, StoredAt(rec))
                       /\ files' = files
               /\ age > expiry_seconds
                    => /\ last'.ret = RetNone
                       /\ files' = [files EXCEPT ![GetCacheFilePath(last'.key)] = NoFile]
       ]_vars

\* get returned an entry whose age is exactly the (positive) time-to-live.
C8_Witness ==
    /\ last.op = "get" /\ last.branch = "hit"
    /\ expiry_seconds > 0
    /\ now - last.ret.cached_at = expiry_seconds

----------------------------------------------------------------------------
\* Properties of the calls made in a row on one key (SpecStore).

\* The trail ends with set, set, get on one key.
SetSetGet ==
    /\ Len(trail) = 3
    /\ trail[1].op = "set" /\ trail[2].op = "set" /\ trail[3].op = "get"

\* C9: set(k, v1), set(k, v2), get(k) within the time-to-live returns v2 with the
\* storage time of the second set; a set leaves as the record of k exactly its
\* own entry, nothing of the record it replaced.
C9_LastWriteWins ==
    /\ (trail # << >> /\ trail[Len(trail)].op = "set")
          => LET w == trail[Len(trail)]
             IN RecOf(w.key) = Obj(IsoFormat(w.at), w.val)
    /\ (SetSetGet /\ trail[3].at - trail[2].at <= expiry_seconds)
          => trail[3].ret = RetDict(trail[2].val, TRUE, trail[2].at)

\* p1 was set, later p2 was set for the same key, and a still later get returned
\* p2 with the time of the second set.
C9_Witness ==
    /\ SetSetGet
    /\ trail[1].val = "p1" /\ trail[2].val = "p2"
    /\ trail[1].at < trail[2].at /\ trail[2].at < trail[3].at
    /\ trail[3].ret = RetDict("p2", TRUE, trail[2].at)

\* C10: repeated get calls on an entry still within its time-to-live return the
\* same payload and the same cached_at, and the stored record stays as it was:
\* a read does not advance the storage time.
C10_ReadIsIdempotent ==
    /\ \A i \in 1..Len(trail) : \A j \in 1..Len(trail) :
          (/\ i < j
           /\ \A m \in i..j : trail[m].op = "get"
           /\ trail[i].ret.kind = "dict"
           /\ trail[j].at - trail[i].ret.cached_at <= expiry_seconds)
          => trail[j].ret = trail[i].ret
    /\ (trail # << >> /\ trail[Len(trail)].op = "get"
                      /\ trail[Len(trail)].ret.kind = "dict")
          => LET r == trail[Len(trail)]
             IN RecOf(r.key) = Obj(IsoFormat(r.ret.cached_at), r.ret.data)

\* Three gets in a row, the last one later than the others and later than the
\* storage time, returned the same entry.
C10_Witness ==
    /\ Len(trail) = 3
    /\ \A m \in 1..3 : trail[m].op = "get" /\ trail[m].ret.kind = "dict"
    /\ trail[1].at < trail[3].at
    /\ trail[1].ret.cached_at < trail[3].at
    /\ trail[3].ret = trail[1].ret
    /\ RecOf(trail[3].key) = Obj(IsoFormat(trail[1].ret.cached_at), trail[1].ret.data)

----------------------------------------------------------------------------
\* Properties of the fetches that follow a successful upstream fetch (SpecService).

\* The step is the lookup of a fetch for the followed key, within the
\* time-to-live of the followed fetch.
LaterFetch ==
    /\ Ran({"fetch"})
    /\ shield # NoShield
    /\ last'.key = shield.key
    /\ now - shield.at <= expiry_seconds

\* C6 as stated: after a fetch for k succeeded upstream, every later fetch for k
\* within the time-to-live with no clear in between returns the same payload
\* with cached = true.
C6_AsStated ==
    [][ LaterFetch
        => /\ last'.ret.kind = "dict" /\ last'.ret.cached
           /\ last'.ret.data = shield.data ]_vars

\* C6, amended: after a fetch for k succeeded upstream, every later fetch for k
\* within the time-to-live, with no clear and no other write to the record of k
\* in between, returns the same payload with cached = true and the storage time
\* of that fetch, and sends no request upstream.
C6_CacheShields ==
    [][ (LaterFetch /\ shield.intact)
        => /\ last'.ret = RetDict(shield.data, TRUE, shield.at)
           /\ pc' = pc ]_vars

\* A fetch was served the payload of an earlier upstream fetch from the cache, at
\* a later time, while another caller's request upstream is pending.
C6_Witness ==
    /\ last.op = "fetch" /\ shield.intact /\ last.key = shield.key
    /\ last.ret = RetDict(shield.data, TRUE, shield.at)
    /\ shield.at < now
    /\ \E c \in Callers : pc[c] = "awaiting"

----------------------------------------------------------------------------
\* Properties of the sweeps.

\* The file names whose record the step removed.
Deleted == {f \in DOMAIN files : files[f] # NoFile /\ files'[f] = NoFile}

\* C11: clear_expired deletes exactly the records that are expired or are not
\* valid entries, leaves every fresh valid entry as it is, returns the number of
\* records it deleted, and every record that remains is one get returns a hit for.
C11_SweepIsExact ==
    [][ Ran({"clear_expired"})
        => /\ \A f \in DOMAIN files :
                 files[f] # NoFile =>
                    IF IsEntry(files[f]) /\ now - StoredAt(files[f]) <= expiry_seconds
                    THEN files'[f] = files[f]
                    ELSE files'[f] = NoFile
           /\ last'.ret = RetCount(Cardinality(Deleted))
           /\ \A k \in CacheKeys :
                 files'[GetCacheFilePath(k)] # NoFile
                    => Get(files', k, now, expiry_seconds).branch = "hit" ]_vars

\* C12: clear removes every stored record whatever its age, except the records
\* whose unlink raises: those stay, they are not counted, and the records listed
\* after them are removed all the same; clear returns the number it removed.
C12_ClearIsBestEffort ==
    [][ Ran({"clear"})
        => /\ \A f \in DOMAIN files :
                 files'[f] = IF f \in fault'.stuck THEN files[f] ELSE NoFile
           /\ last'.ret = RetCount(Cardinality(Deleted)) ]_vars

\* clear removed one record, of an age above zero, and left the one whose unlink raised.
C12_Witness ==
    /\ last.op = "clear" /\ last.ret = RetCount(1)
    /\ \E f \in fault.stuck : IsEntry(files[f]) /\ StoredAt(files[f]) < now

\* C13: a _fetch_data whose upstream call succeeded returns the fetched payload
\* with cached = false also when the write inside set fails: no exception leaves
\* set, and a _fetch_data fails only with the error of its upstream outcome.
C13_WriteFailureIsSwallowed ==
    /\ (last.op = "fetch_done" /\ Classify(last.upstream) = "")
          => last.ret = RetDict(last.upstream.body, FALSE, None)
    /\ (last.op = "fetch_done" /\ last.ret.kind = "raise")
          => last.ret.err = Classify(last.upstream)

\* A fetch returned the fresh payload although its write failed midway and left
\* an unreadable file.
C13_Witness ==
    /\ last.op = "fetch_done" /\ fault.write = "dump"
    /\ last.ret = RetDict("p2", FALSE, None)
    /\ RecOf(last.key) = Garbage

----------------------------------------------------------------------------
\* Properties of the cache keys.

\* C14: two distinct logical requests (a method of the service with its
\* arguments) are stored under distinct storage identifiers: the key derivation
\* followed by the sanitization is injective.
C14_KeysAreInjective ==
    \A c \in Callers : \A d \in Callers :
        (asked[c] # NoRequest /\ asked[d] # NoRequest /\ asked[c] # asked[d])
           => RequestFile(asked[c]) # RequestFile(asked[d])

----------------------------------------------------------------------------
\* Properties of concurrent fetches.

\* The callers whose call the step brings from the state "from" to the state "to".
Moved(from, to) == {c \in Callers : pc[c] = from /\ pc'[c] = to}

\* C15: every _fetch_data that observes a miss sends its own request upstream,
\* also while another call for the same key is waiting for the upstream; every
\* call that the upstream answers successfully writes its own payload over
\* whatever the key's record holds, the other calls stay suspended, and a call
\* that fails leaves the record: the entry is the payload written last.
C15_Stampede ==
    [][ /\ (Ran({"fetch"}) /\ last'.branch # "hit" /\ last'.ret.kind # "raise")
              => \E c \in Callers :
                    /\ pc[c] = "idle"
                    /\ pc' = [pc EXCEPT ![c] = "awaiting"]
                    /\ req' = [req EXCEPT ![c] = last'.key]
        /\ Ran({"fetch_done"})
              => /\ Cardinality(Moved("awaiting", "idle")) = 1
                 /\ \A c \in Moved("awaiting", "awaiting") : req'[c] = req[c]
                 /\ files' = IF last'.ret.kind = "dict"
                             THEN [files EXCEPT ![GetCacheFilePath(last'.key)] =
                                      JsonDump(last'.ret.data, now)]
                             ELSE files ]_vars

\* Two calls for one key both missed; the first wrote p1, the other one has now
\* written p2 over it, and the entry is p2 with the time of the second write.
C15_Witness ==
    /\ last.op = "fetch_done" /\ last.ret = RetDict("p2", FALSE, None)
    /\ shield.key = last.key /\ shield.data = "p1" /\ ~shield.intact
    /\ shield.at < now /\ now - shield.at <= expiry_seconds
    /\ RecOf(last.key) = JsonDump("p2", now)
    /\ \A c \in Callers : pc[c] = "idle"

----------------------------------------------------------------------------
\* Properties of the frame of get and set.

\* C16: for two distinct cache keys k and k2, get(k) and set(k, v) leave the
\* entry of k2 as it is: get(k2) returns after the operation what it returned
\* before it.
C16_OtherKeysUntouched ==
    [][ Ran({"get", "set"})
        => \A k2 \in CacheKeys :
              k2 # last'.key
                 => Get(files', k2, now, expiry_seconds).ret
                       = Get(files, k2, now, expiry_seconds).ret ]_vars

----------------------------------------------------------------------------
\* Properties of the construction.

\* C17: with an empty credential the construction of the WeatherService fails,
\* no service object exists, and no request is ever sent upstream.
C17_NoCredentialNoRequest ==
    api_key = ""
       => /\ service # "ready"
          /\ \A c \in Callers : pc[c] = "idle"
          /\ last.op \notin {"fetch", "fetch_done"}
          /\ last.op = "construct" => last.ret.kind = "raise"

\* The construction was attempted without a credential, once more at a later
\* time, and failed.
C17_Witness ==
    /\ api_key = "" /\ service = "failed"
    /\ last.op = "construct" /\ last.ret = RetRaise("APIKeyException")
    /\ now > 0

\* C18: the fault the construction raises for a missing credential is of
\* another kind than every fault a fetch raises, the one for a 401 included.
C18_MissingCredentialIsDistinct ==
    (last.op = "construct" /\ last.ret.kind = "raise")
       => \A o \in Outcomes : Classify(o) # last.ret.err

----------------------------------------------------------------------------
\* Properties of the course of one _fetch_data call.

\* C19: a _fetch_data call looks the key up once, and only a call whose lookup
\* returned nothing sends a request upstream, one; the answer to that request
\* ends the call whatever it is, also a timeout (no second request), and the
\* record of the key is written then, once, and only for a payload.
C19_OneRequestNoRetry ==
    [][ /\ Ran({"fetch"})
              => /\ Moved("awaiting", "idle") = {}
                 /\ Cardinality(Moved("idle", "awaiting")) <= 1
                 /\ Moved("idle", "awaiting") # {} <=> last'.ret = RetPending
                 /\ \A c \in Moved("idle", "awaiting") : req'[c] = last'.key
                 /\ \A f \in DOMAIN files : files'[f] \in {files[f], NoFile}
        /\ Ran({"fetch_done"})
              => /\ \E c \in Callers :
                       /\ pc[c] = "awaiting"
                       /\ pc' = [pc EXCEPT ![c] = "idle"]
                       /\ req' = [req EXCEPT ![c] = NoKey]
                 /\ last'.ret.kind \in {"dict", "raise"}
                 /\ \A f \in DOMAIN files :
                       files'[f] # files[f]
                          => /\ f = GetCacheFilePath(last'.key)
                             /\ last'.ret.kind = "dict" ]_vars

\* The upstream timed out at a later time than the call was made: the call ended
\* with Timeout, no call is suspended and nothing is stored.
C19_Witness ==
    /\ last.op = "fetch_done" /\ last.upstream = Transport("httpx.TimeoutException")
    /\ last.ret = RetRaise("TimeoutException")
    /\ now > 0
    /\ \A c \in Callers : pc[c] = "idle"
    /\ \A f \in DOMAIN files : files[f] = NoFile

\* C20 (what reaches the caller): a _fetch_data call ends with a result or with
\* one of the five error kinds, whatever the cache record of its key holds; when
\* it missed the cache and the upstream fails, it ends with an error.
C20_OnlyClassifiedOutcomes ==
    /\ (last.op \in {"fetch", "fetch_done"} /\ last.ret.kind = "raise")
          => ErrorKind(last.ret.err) # "unclassified"
    /\ (last.op = "fetch_done" /\ Classify(last.upstream) # "")
          => last.ret.kind = "raise"

----------------------------------------------------------------------------
\* Properties of the assembly of the response.

\* C21: when the payload _fetch_data returned, fresh or cached, is not of the
\* expected shape, the public method fails with InvalidResponse and with no
\* failure of another kind.
C21_MisshapedIsInvalidResponse ==
    (last.op \in {"fetch", "fetch_done"} /\ last.ret.kind = "dict"
                                         /\ last.ret.data = Misshaped)
       => /\ reply.body.kind = "raise"
          /\ ErrorKind(reply.body.err) = "InvalidResponse"

----------------------------------------------------------------------------
\* Properties of the cache administration routes.

\* C30: both administration routes construct a WeatherService first: with an
\* empty credential they end in a 500 error and delete no record; with a
\* credential they return exactly the count CacheManager.clear and
\* CacheManager.clear_expired return, and leave the directory those leave.
C30_RoutesNeedTheService ==
    [][ /\ (Ran({"clear_cache", "clear_expired_cache"}) /\ api_key = "")
              => /\ reply'.status = 500
                 /\ reply'.body.kind = "raise"
                 /\ files' = files
        /\ (Ran({"clear_cache"}) /\ api_key # "")
              => /\ reply'.status = 200
                 /\ reply'.body = Clear(files).ret
                 /\ files' = Clear(files).files
        /\ (Ran({"clear_expired_cache"}) /\ api_key # "")
              => /\ reply'.status = 200
                 /\ reply'.body = ClearExpired(files, now, expiry_seconds).ret
                 /\ files' = ClearExpired(files, now, expiry_seconds).files ]_vars

\* With no credential, clear-all ended in a 500 while the directory holds a
\* record it would have deleted.
C30_Witness ==
    /\ api_key = ""
    /\ last.op = "clear_cache"
    /\ reply.status = 500 /\ reply.body = RetRaise("APIKeyException")
    /\ \E f \in DOMAIN files : IsEntry(files[f])
    /\ now > 0

----------------------------------------------------------------------------
\* Properties of the time-to-live of a store (SpecReconf).

\* C23: freshness is decided at read time from the stored cached_at only: set
\* stores the time of the write and nothing of the writer's time-to-live, and a
\* get of that record through a store with time-to-live S2 is a hit, with the
\* payload and the time of the write, exactly when the age does not exceed S2;
\* the time-to-live S1 of the writing store plays no role.
C23_FreshnessAtReadTime ==
    [][ /\ Ran({"set"})
              => files'[GetCacheFilePath(last'.key)] = Obj(IsoFormat(now), last'.val)
        /\ (/\ Ran({"get"})
            /\ trail # << >>
            /\ GetCacheFilePath(last'.key) = GetCacheFilePath(trail[1].key))
              => last'.ret = IF now - trail[1].at <= expiry_seconds
                             THEN RetDict(trail[1].val, TRUE, trail[1].at)
                             ELSE RetNone ]_vars

\* An entry written through a store with time-to-live 0 was read at age 1
\* through a store with time-to-live 1 and was a hit.
C23_Witness ==
    /\ last.op = "get"
    /\ trail # << >>
    /\ GetCacheFilePath(last.key) = GetCacheFilePath(trail[1].key)
    /\ trail[1].ttl = 0 /\ expiry_seconds = 1
    /\ now - trail[1].at = 1
    /\ last.ret = RetDict(trail[1].val, TRUE, trail[1].at)

\* C24: a CacheManager constructed with an explicit time-to-live S >= 0 uses S
\* as its expiry threshold, S = 0 included; it substitutes no other value.
C24_ExplicitTtlIsUsed ==
    [][ (Ran({"reopen"}) /\ last'.val # None) => expiry_seconds' = last'.val ]_vars

----------------------------------------------------------------------------
\* Properties of the life of an entry (SpecService).

\* C25: in a system driven by fetch, clear and clear_expired only, the record
\* stored under a key k changes in two ways only: a fetch with cache key k that
\* the upstream answered with status 200 and a parseable body writes that
\* payload with the time of the write, or the record leaves the store, by the
\* lazy eviction of a lookup, by clear or by clear_expired.
C25_EntriesComeFromOwnFetch ==
    [][ \A k \in CacheKeys :
          files'[GetCacheFilePath(k)] # RecOf(k)
            => \/ /\ Ran({"fetch_done"})
                  /\ last'.key = k
                  /\ last'.upstream.exc = "none" /\ last'.upstream.status = 200
                  /\ last'.upstream.body \in Payloads
                  /\ files'[GetCacheFilePath(k)] = JsonDump(last'.upstream.body, now)
               \/ /\ Ran({"fetch", "clear", "clear_expired"})
                  /\ files'[GetCacheFilePath(k)] = NoFile ]_vars

----------------------------------------------------------------------------
\* Properties of the interleaved calls of two processes (SpecRace).

\* C22: when two set calls for one key run concurrently, the record left when
\* both have finished is the entry of the set whose write landed last, in full:
\* a set whose file is still in the directory, finishing while no other set is
\* in progress, leaves exactly its own entry.
C22_LastWriteInFull ==
    [][ \A c \in Callers :
          (/\ pc[c] = "set_write" /\ pc'[c] = "idle"
           /\ proc[c].cut = "-"
           /\ \A d \in Callers \ {c} : pc[d] # "set_write")
            => files'[RaceFile] = JsonDump(proc[c].val, proc[c].at) ]_vars

\* C26: whatever another process does meanwhile, get completes by returning an
\* entry or nothing; it never raises.
C26_GetNeverRaises ==
    last.op = "get" => last.ret.kind # "raise"

\* C27: the count clear and clear_expired return is the number of records the
\* call itself removed; a record another operation removed is not counted.
C27_CountIsOwnRemovals ==
    [][ (Ran({"clear", "clear_expired"}) /\ last'.ret.kind = "count")
          => LET done == {c \in Callers : pc[c] # "idle" /\ pc'[c] = "idle"}
             IN  IF done = {}
                 THEN last'.ret.n = 0 /\ files' = files
                 ELSE \A c \in done :
                        last'.ret.n = proc[c].removed + Cardinality(Deleted) ]_vars

\* C28: a get that runs while a set is in progress returns an entry in full or
\* nothing, and the gets of other processes do not remove the record of a set
\* that completes: when the set returns, its file is in the directory.
C28_SetSurvivesReaders ==
    [][ /\ (Ran({"get"}) /\ last'.ret.kind = "dict")
              => /\ IsEntry(RecOf(RaceKey))
                 /\ last'.ret = RetDict(RecOf(RaceKey).data, TRUE, StoredAt(RecOf(RaceKey)))
        /\ \A c \in Callers :
              (pc[c] = "set_write" /\ pc'[c] = "idle" /\ proc[c].cut \in {"-", "get"})
                => files'[RaceFile] # NoFile ]_vars

====
